---------------------------- MODULE Spec2Model ----------------------------
(***************************************************************************)
(* A model of the mention store and analytics engine of osint-app:         *)
(* the sentiment classifier and its statistics                             *)
(* (osint_app/analyzers/sentiment.py, osint_app/utils/__init__.py), the    *)
(* TinyDB-backed mention store (osint_app/storage/database.py), the        *)
(* collectors' mention dicts (osint_app/collectors/base.py), the report    *)
(* generator (osint_app/utils/reporter.py), the OSINTApp orchestrator      *)
(* with its monitors and filters (osint_app/app.py, osint_app/monitors),   *)
(* and the collect command over the placeholder collectors                 *)
(* (osint_app/cli.py, osint_app/collectors/web_collector.py).  Each        *)
(* component has a specification of its own over the shared variables.     *)
(*                                                                         *)
(* Conventions.  A Python value that may be missing (an absent dict key,   *)
(* an argument left at None) is a sequence of length at most one: <<>> is  *)
(* "missing", <<v>> is "present with value v".  Polarity and subjectivity  *)
(* are floats in the code; here they are integers counting thousandths,    *)
(* so 0.1 is 100 and the comparisons of the code keep their meaning.       *)
(***************************************************************************)
EXTENDS Integers, Sequences, FiniteSets, TLC

VARIABLES
    batch,      \* the caller's list of mentions (mention dicts, or Mention objects
                \* where OSINTApp is called); all_mentions of the collect command
    call,       \* the last call: its name, arguments, outcome and return value
                \* (for analyze_batch also the caller's list after the call; for
                \* the collect command the step the run has completed)
    mentions,   \* Database.mentions: the TinyDB table 'mentions', in doc_id order
    queries,    \* Database.queries: the TinyDB table 'queries', in doc_id order
    clock,      \* what datetime.now() returns
    inserted,   \* history: the mentions handed to save_* since the store was last empty
    app_results, \* OSINTApp.results: the Mention objects of the last search
    monitors,   \* OSINTApp.monitors: the monitor registered under each platform key
    tracked     \* BaseCollector.keywords: the tracked keywords of the collector

vars == <<batch, call, mentions, queries, clock, inserted, app_results, monitors, tracked>>

---------------------------------------------------------------------------
(* Bounds of the model *)

\* the longest list the caller hands to analyze_batch
MaxBatch == 3

\* the most mentions the store holds
MaxStore == 3

\* the longest list handed to save_mentions
MaxSave == 2

\* the most records the query log holds
MaxQueries == 1

\* the largest limit asked of get_mentions and get_by_sentiment
MaxLimit == 2

---------------------------------------------------------------------------
(* Optional values *)

None == <<>>

Some(x) == <<x>>

---------------------------------------------------------------------------
(* The demo texts of the monitors (osint_app/monitors/twitter.py,          *)
(* reddit.py, web.py): f-strings around the first keyword of the query,    *)
(* written out for the two keywords of the model.                          *)

demo_tweets(keyword) ==
    CASE keyword = "ai" ->
             << "Just tried ai and it's amazing! #tech #innovation",
                "Not impressed with ai. Expected more.",
                "Looking for alternatives to ai. Any suggestions?",
                "Great experience with ai today! Highly recommend.",
                "ai is trending right now! Check it out." >>
      [] keyword = "example" ->
             << "Just tried example and it's amazing! #tech #innovation",
                "Not impressed with example. Expected more.",
                "Looking for alternatives to example. Any suggestions?",
                "Great experience with example today! Highly recommend.",
                "example is trending right now! Check it out." >>

demo_posts(keyword) ==
    CASE keyword = "ai" ->
             << "Discussion: What do you think about ai?",
                "PSA: ai has some great new features!",
                "Looking for feedback on ai",
                "Has anyone else tried ai? Thoughts?" >>
      [] keyword = "example" ->
             << "Discussion: What do you think about example?",
                "PSA: example has some great new features!",
                "Looking for feedback on example",
                "Has anyone else tried example? Thoughts?" >>

demo_articles(keyword) ==
    CASE keyword = "ai" ->
             << "News: ai Launches New Initiative",
                "Blog Post: My Experience with ai",
                "Review: Is ai Worth It?" >>
      [] keyword = "example" ->
             << "News: example Launches New Initiative",
                "Blog Post: My Experience with example",
                "Review: Is example Worth It?" >>

DemoKeywords == {"ai", "example"}

\* The polarity the library gives a demo text.  It is fixed by the words
\* around the keyword: one value for the texts of praise, one for the text
\* of complaint, 0 for the others.
PraiseTexts ==
    UNION { {demo_tweets(kw)[1], demo_tweets(kw)[4], demo_posts(kw)[2],
             demo_articles(kw)[1], demo_articles(kw)[3]} : kw \in DemoKeywords }

ComplaintTexts == { demo_tweets(kw)[2] : kw \in DemoKeywords }

DemoPolarity(text) ==
    IF text \in PraiseTexts THEN 500
    ELSE IF text \in ComplaintTexts THEN -250
    ELSE 0

---------------------------------------------------------------------------
(* The text-analysis library.  TextBlob(text).sentiment is a black box     *)
(* that is a function of the text; for content that is not a string the    *)
(* constructor raises TypeError.  The table fixes one outcome per text,    *)
(* with polarities on both sides of each threshold and on the thresholds.  *)

NotAString == "<not a str>"

Texts == {"great", "awful", "okay", "edge_pos", "edge_neg", "just_pos", "just_neg"}

TextBlobRaises(text) == text = NotAString

TextBlobPolarity(text) ==
    CASE text = "great"    -> 500
      [] text = "awful"    -> -500
      [] text = "okay"     -> 0
      [] text = "edge_pos" -> 100
      [] text = "edge_neg" -> -100
      [] text = "just_pos" -> 101
      [] text = "just_neg" -> -101
      [] OTHER             -> DemoPolarity(text)

TextBlobSubjectivity(text) ==
    CASE text = "great"    -> 600
      [] text = "awful"    -> 600
      [] text = "okay"     -> 200
      [] text = "edge_pos" -> 500
      [] text = "edge_neg" -> 500
      [] text = "just_pos" -> 1000
      [] text = "just_neg" -> 0
      [] OTHER             -> 0

---------------------------------------------------------------------------
(* SentimentAnalyzer *)

\* the literal 0.1 of "polarity > 0.1", in thousandths
PosThreshold == 100

\* the literal -0.1 of "polarity < -0.1", in thousandths
NegThreshold == -100

\* polarity * 0.7 + (1 - subjectivity) * 0.3, in ten-thousandths
calculate_score(polarity, subjectivity) ==
    polarity * 7 + (1000 - subjectivity) * 3

\* analyze with the thresholds made inclusive (>= and <=)
analyze_inclusive(text) ==
    IF TextBlobRaises(text)
    THEN [outcome |-> "raised", value |-> None]
    ELSE LET polarity     == TextBlobPolarity(text)
             subjectivity == TextBlobSubjectivity(text)
             sentiment    == IF polarity >= PosThreshold THEN "positive"
                             ELSE IF polarity <= NegThreshold THEN "negative"
                             ELSE "neutral"
         IN  [outcome |-> "returned",
              value   |-> Some([sentiment    |-> sentiment,
                                polarity     |-> polarity,
                                subjectivity |-> subjectivity,
                                score        |-> calculate_score(polarity, subjectivity)])]

\* SentimentAnalyzer.analyze: no exception handler surrounds the TextBlob
\* call, so its exception leaves analyze.
analyze(text) ==
    IF TextBlobRaises(text)
    THEN [outcome |-> "raised", value |-> None]
    ELSE LET polarity     == TextBlobPolarity(text)
             subjectivity == TextBlobSubjectivity(text)
             sentiment    == IF polarity > PosThreshold THEN "positive"
                             ELSE IF polarity < NegThreshold THEN "negative"
                             ELSE "neutral"
         IN  [outcome |-> "returned",
              value   |-> Some([sentiment    |-> sentiment,
                                polarity     |-> polarity,
                                subjectivity |-> subjectivity,
                                score        |-> calculate_score(polarity, subjectivity)])]

\* utils.analyze_sentiment: the same rule inside try/except; any exception
\* gives 'neutral'.
analyze_sentiment(text) ==
    IF TextBlobRaises(text)
    THEN "neutral"
    ELSE LET polarity == TextBlobPolarity(text)
         IN  IF polarity > 100 THEN "positive"
             ELSE IF polarity < -100 THEN "negative"
             ELSE "neutral"

\* The loop of analyze_batch from position i on.  The dicts are updated in
\* place, so when analyze raises at position i the mentions before i keep
\* the sentiment they were given and the exception leaves analyze_batch.
RECURSIVE BatchLoop(_, _)
BatchLoop(ms, i) ==
    IF i > Len(ms)
    THEN [outcome |-> "returned", list |-> ms]
    ELSE IF ms[i].text = None
         THEN BatchLoop(ms, i + 1)
         ELSE LET sentiment_result == analyze(ms[i].text[1])
              IN  IF sentiment_result.outcome = "raised"
                  THEN [outcome |-> "raised", list |-> ms]
                  ELSE BatchLoop([ms EXCEPT ![i].sentiment = sentiment_result.value],
                                 i + 1)

\* analyze_batch with a loop that starts one mention too late
analyze_batch_skip_first(ms) == BatchLoop(ms, 2)

analyze_batch(ms) == BatchLoop(ms, 1)

---------------------------------------------------------------------------
(* Mention dicts *)

Mention(text, source, keywords, sentiment) ==
    [text |-> text, source |-> source, keywords |-> keywords,
     sentiment |-> sentiment, timestamp |-> 0, saved_at |-> None]

\* What a collector hands to analyze_batch: no sentiment yet; the text is a
\* string, something that is not a string, or missing.
Collected ==
    { Mention(t, "twitter", <<"ai">>, None) :
          t \in {None, Some("great"), Some("just_neg"), Some(NotAString)} }

---------------------------------------------------------------------------
(* Calls of the classifier *)

NoCall == [op |-> "none"]

Analyze(text) ==
    /\ call' = [op |-> "analyze", text |-> text, result |-> analyze(text)]
    /\ UNCHANGED <<batch, mentions, queries, clock, app_results, monitors, tracked, inserted>>

AnalyzeSentiment(text) ==
    /\ call' = [op |-> "analyze_sentiment", text |-> text,
                result |-> analyze_sentiment(text)]
    /\ UNCHANGED <<batch, mentions, queries, clock, app_results, monitors, tracked, inserted>>

\* The caller starts a new list (all_mentions = []).
NewBatch ==
    /\ batch # <<>>
    /\ batch' = <<>>
    /\ UNCHANGED <<call, mentions, queries, clock, app_results, monitors, tracked, inserted>>

\* The caller adds a collected mention to its list (all_mentions.extend).
Collect(m) ==
    /\ Len(batch) < MaxBatch
    /\ batch' = Append(batch, m)
    /\ UNCHANGED <<call, mentions, queries, clock, app_results, monitors, tracked, inserted>>

\* analyzer.analyze_batch(all_mentions): the dicts of the list are updated in
\* place, so the caller's list shows the work done also when the call raises.
AnalyzeBatch ==
    LET r == analyze_batch(batch)
    IN  /\ batch' = r.list
        /\ call' = [op |-> "analyze_batch", arg |-> batch, outcome |-> r.outcome,
                    after |-> r.list,
                    value |-> IF r.outcome = "returned" THEN Some(r.list) ELSE None]
        /\ UNCHANGED <<mentions, queries, clock, app_results, monitors, tracked, inserted>>

Init ==
    /\ batch = <<>>
    /\ call = NoCall
    /\ mentions = <<>>
    /\ queries = <<>>
    /\ clock = 0
    /\ inserted = <<>>
    /\ app_results = <<>>
    /\ monitors = <<>>
    /\ tracked = <<>>

NextSentiment ==
    \/ \E text \in Texts \cup {NotAString} : Analyze(text)
    \/ \E text \in Texts \cup {NotAString} : AnalyzeSentiment(text)
    \/ NewBatch
    \/ \E m \in Collected : Collect(m)
    \/ AnalyzeBatch

SpecSentiment == Init /\ [][NextSentiment]_vars

---------------------------------------------------------------------------
(* Database (osint_app/storage/database.py).  A TinyDB table is the list   *)
(* of its documents in doc_id order: insert and insert_multiple append,    *)
(* all() and search() read in that order, truncate() empties the table.    *)
(* The documents of the model hold strings, numbers, lists and dicts with  *)
(* string keys, which TinyDB's JSON storage writes and reads back as they  *)
(* are.                                                                    *)

\* Python's truth test of an Optional[str]: None and '' are false
TruthyStr(x) == x # None /\ x[1] # ""

\* Python's truth test of an Optional[int]: None and 0 are false
TruthyInt(x) == x # None /\ x[1] # 0

\* results[:limit]
SliceTo(results, limit) ==
    IF limit >= 0
    THEN SubSeq(results, 1, IF limit < Len(results) THEN limit ELSE Len(results))
    ELSE SubSeq(results, 1, IF Len(results) + limit > 0 THEN Len(results) + limit ELSE 0)

\* Mention.keywords.any(cond): some element of the stored list is in cond
KeywordsAny(value, cond) ==
    \E i \in DOMAIN value : \E j \in DOMAIN cond : value[i] = cond[j]

\* save_mention that replaces a stored mention of the same text instead of
\* inserting a second one
save_mention_upsert(table, mention, now) ==
    IF \E i \in DOMAIN table : table[i].text = mention.text
    THEN [i \in DOMAIN table |->
             IF table[i].text = mention.text
             THEN [mention EXCEPT !.saved_at = Some(now)]
             ELSE table[i]]
    ELSE Append(table, [mention EXCEPT !.saved_at = Some(now)])

\* save_mention: stamp saved_at, then self.mentions.insert(mention)
save_mention(table, mention, now) ==
    Append(table, [mention EXCEPT !.saved_at = Some(now)])

\* save_mentions inserting the list back to front
RECURSIVE save_mentions_reversed(_, _, _)
save_mentions_reversed(table, ms, now) ==
    IF ms = <<>> THEN table
    ELSE save_mentions_reversed(
             Append(table, [ms[Len(ms)] EXCEPT !.saved_at = Some(now)]),
             SubSeq(ms, 1, Len(ms) - 1), now)

\* save_mentions that writes the stamp over the mention's own timestamp too
save_mentions_one_stamp(table, ms, now) ==
    table \o [i \in 1..Len(ms) |->
                 [ms[i] EXCEPT !.saved_at = Some(now), !.timestamp = now]]

\* save_mentions: stamp every mention, then self.mentions.insert_multiple
save_mentions(table, ms, now) ==
    table \o [i \in 1..Len(ms) |-> [ms[i] EXCEPT !.saved_at = Some(now)]]

\* save_query that inserts the record twice
save_query_twice(table, keywords, sources, results_count, now) ==
    table \o << [keywords |-> keywords, sources |-> sources,
                 results_count |-> results_count, timestamp |-> now],
                [keywords |-> keywords, sources |-> sources,
                 results_count |-> results_count, timestamp |-> now] >>

\* save_query: self.queries.insert(query_record)
save_query(table, keywords, sources, results_count, now) ==
    Append(table, [keywords |-> keywords, sources |-> sources,
                   results_count |-> results_count, timestamp |-> now])

\* get_mentions that tests the keyword alone when both filters are given
get_mentions_or(table, limit, source, keyword) ==
    LET results ==
            IF TruthyStr(source) /\ TruthyStr(keyword)
            THEN SelectSeq(table, LAMBDA m : KeywordsAny(m.keywords, <<keyword[1]>>))
            ELSE IF TruthyStr(source)
            THEN SelectSeq(table, LAMBDA m : m.source = source[1])
            ELSE IF TruthyStr(keyword)
            THEN SelectSeq(table, LAMBDA m : KeywordsAny(m.keywords, <<keyword[1]>>))
            ELSE table
    IN  IF TruthyInt(limit) THEN SliceTo(results, limit[1]) ELSE results

\* get_mentions: the four branches on the truth of source and keyword, then
\* "if limit: return results[:limit]"
get_mentions(table, limit, source, keyword) ==
    LET results ==
            IF TruthyStr(source) /\ TruthyStr(keyword)
            THEN SelectSeq(table, LAMBDA m : /\ m.source = source[1]
                                             /\ KeywordsAny(m.keywords, <<keyword[1]>>))
            ELSE IF TruthyStr(source)
            THEN SelectSeq(table, LAMBDA m : m.source = source[1])
            ELSE IF TruthyStr(keyword)
            THEN SelectSeq(table, LAMBDA m : KeywordsAny(m.keywords, <<keyword[1]>>))
            ELSE table
    IN  IF TruthyInt(limit) THEN SliceTo(results, limit[1]) ELSE results

\* get_by_sentiment that takes a document without sentiment for a neutral one
get_by_sentiment_default_neutral(table, sentiment, limit) ==
    LET results == SelectSeq(table,
                       LAMBDA m : IF m.sentiment = None
                                  THEN sentiment = "neutral"
                                  ELSE m.sentiment[1].sentiment = sentiment)
    IN  IF TruthyInt(limit) THEN SliceTo(results, limit[1]) ELSE results

\* get_by_sentiment: Mention.sentiment.sentiment == sentiment is false for a
\* document without the key; then "if limit: return results[:limit]"
get_by_sentiment(table, sentiment, limit) ==
    LET results == SelectSeq(table, LAMBDA m : /\ m.sentiment # None
                                               /\ m.sentiment[1].sentiment = sentiment)
    IN  IF TruthyInt(limit) THEN SliceTo(results, limit[1]) ELSE results

\* dict.get(k, default) and d[k] = v
DictGet(d, k, default) == IF k \in DOMAIN d THEN d[k] ELSE default

DictSet(d, k, v) == [x \in DOMAIN d \cup {k} |-> IF x = k THEN v ELSE d[x]]

EmptyDict == <<>>

\* The loop of get_statistics from position i on.  Every mention dict of the
\* model has the key 'source', so the default 'unknown' of
\* mention.get('source', 'unknown') is never taken.
RECURSIVE StatisticsLoop(_, _, _, _)
StatisticsLoop(all_mentions, i, sources, sentiments) ==
    IF i > Len(all_mentions)
    THEN [sources |-> sources, sentiments |-> sentiments]
    ELSE LET mention   == all_mentions[i]
             source    == mention.source
             sentiment == IF mention.sentiment = None
                          THEN "neutral"
                          ELSE mention.sentiment[1].sentiment
         IN  StatisticsLoop(
                 all_mentions, i + 1,
                 DictSet(sources, source, DictGet(sources, source, 0) + 1),
                 IF sentiment \in DOMAIN sentiments
                 THEN [sentiments EXCEPT ![sentiment] = @ + 1]
                 ELSE sentiments)

\* get_statistics with per-source counts that are set instead of added to
get_statistics_no_add(all_mentions, all_queries) ==
    [total_mentions |-> Len(all_mentions),
     sources        |-> [s \in {all_mentions[i].source : i \in DOMAIN all_mentions} |-> 1],
     sentiments     |-> StatisticsLoop(all_mentions, 1, EmptyDict,
                            [positive |-> 0, negative |-> 0, neutral |-> 0]).sentiments,
     total_queries  |-> Len(all_queries)]

\* get_statistics: a full scan of both tables
get_statistics(all_mentions, all_queries) ==
    LET counted == StatisticsLoop(all_mentions, 1, EmptyDict,
                       [positive |-> 0, negative |-> 0, neutral |-> 0])
    IN  [total_mentions |-> Len(all_mentions),
         sources        |-> counted.sources,
         sentiments     |-> counted.sentiments,
         total_queries  |-> Len(all_queries)]

\* clear_mentions that truncates the query log as well
clear_mentions_and_queries(all_mentions, all_queries) ==
    [mentions |-> <<>>, queries |-> <<>>]

\* clear_mentions: truncate the table of mentions
clear_mentions(all_mentions, all_queries) ==
    [mentions |-> <<>>, queries |-> all_queries]

\* clear_all that forgets the query log
clear_all_mentions_only(all_mentions, all_queries) ==
    [mentions |-> <<>>, queries |-> all_queries]

\* clear_all: truncate both tables
clear_all(all_mentions, all_queries) ==
    [mentions |-> <<>>, queries |-> <<>>]

---------------------------------------------------------------------------
(* Inputs of the store *)

\* The mention dicts handed to the store: classified by analyze or not yet
\* classified, from sources that differ and that differ only in case, with
\* one, two or no keywords, observed at the time of the call or before it.
Saveable ==
    { Mention(Some("great"), "twitter", <<"ai">>, analyze("great").value),
      [Mention(Some("awful"), "reddit", <<"ai">>, analyze("awful").value)
           EXCEPT !.timestamp = -1],
      Mention(Some("okay"), "twitter", <<"ai", "ml">>, None),
      Mention(Some("okay"), "Twitter", <<>>, analyze("okay").value) }

SeqsUpTo(S, n) == UNION { [1..k -> S] : k \in 0..n }

LimitArgs == {None} \cup {Some(n) : n \in 0..MaxLimit}

SourceArgs == {None, Some(""), Some("twitter")}

KeywordArgs == {None, Some(""), Some("ai"), Some("ml")}

SentimentArgs == {"positive", "negative", "neutral"}

\* the results_count values handed to save_query
ResultCounts == {2}

---------------------------------------------------------------------------
(* Calls of the store.  Time does not advance between them: every stamp is *)
(* the one value of clock.                                                 *)

SaveMention(m) ==
    /\ Len(mentions) < MaxStore
    /\ mentions' = save_mention(mentions, m, clock)
    /\ inserted' = Append(inserted, m)
    /\ call' = [op |-> "save_mention", value |-> Len(mentions')]
    /\ UNCHANGED <<batch, queries, clock, app_results, monitors, tracked>>

SaveMentions(ms) ==
    /\ Len(mentions) + Len(ms) <= MaxStore
    /\ mentions' = save_mentions(mentions, ms, clock)
    /\ inserted' = inserted \o ms
    /\ call' = [op |-> "save_mentions",
                value |-> [i \in 1..Len(ms) |-> Len(mentions) + i]]
    /\ UNCHANGED <<batch, queries, clock, app_results, monitors, tracked>>

SaveQuery(results_count) ==
    /\ Len(queries) < MaxQueries
    /\ queries' = save_query(queries, <<"ai">>, <<"web">>, results_count, clock)
    /\ call' = [op |-> "save_query", value |-> Len(queries')]
    /\ UNCHANGED <<batch, mentions, clock, app_results, monitors, tracked, inserted>>

GetMentions(limit, source, keyword) ==
    /\ call' = [op |-> "get_mentions", limit |-> limit, source |-> source,
                keyword |-> keyword,
                value |-> get_mentions(mentions, limit, source, keyword)]
    /\ UNCHANGED <<batch, mentions, queries, clock, app_results, monitors, tracked, inserted>>

GetBySentiment(sentiment, limit) ==
    /\ call' = [op |-> "get_by_sentiment", sentiment |-> sentiment, limit |-> limit,
                value |-> get_by_sentiment(mentions, sentiment, limit)]
    /\ UNCHANGED <<batch, mentions, queries, clock, app_results, monitors, tracked, inserted>>

GetStatistics ==
    /\ call' = [op |-> "get_statistics", value |-> get_statistics(mentions, queries)]
    /\ UNCHANGED <<batch, mentions, queries, clock, app_results, monitors, tracked, inserted>>

ClearMentions ==
    LET cleared == clear_mentions(mentions, queries)
    IN  /\ mentions' = cleared.mentions
        /\ queries' = cleared.queries
        /\ inserted' = <<>>
        /\ call' = [op |-> "clear_mentions", mentions_before |-> Len(mentions),
                    queries_before |-> Len(queries)]
        /\ UNCHANGED <<batch, clock, app_results, monitors, tracked>>

ClearAll ==
    LET cleared == clear_all(mentions, queries)
    IN  /\ mentions' = cleared.mentions
        /\ queries' = cleared.queries
        /\ inserted' = <<>>
        /\ call' = [op |-> "clear_all", mentions_before |-> Len(mentions),
                    queries_before |-> Len(queries)]
        /\ UNCHANGED <<batch, clock, app_results, monitors, tracked>>

NextDatabase ==
    \/ \E m \in Saveable : SaveMention(m)
    \/ \E ms \in SeqsUpTo(Saveable, MaxSave) : SaveMentions(ms)
    \/ \E n \in ResultCounts : SaveQuery(n)
    \/ \E limit \in LimitArgs, source \in SourceArgs, keyword \in KeywordArgs :
           GetMentions(limit, source, keyword)
    \/ \E sentiment \in SentimentArgs, limit \in LimitArgs :
           GetBySentiment(sentiment, limit)
    \/ GetStatistics
    \/ ClearMentions
    \/ ClearAll

SpecDatabase == Init /\ [][NextDatabase]_vars

---------------------------------------------------------------------------
(* Mention objects (osint_app/models/__init__.py).  A dict with string     *)
(* keys and integer values is a function whose domain is the set of keys   *)
(* it has, so {} is the function with the empty domain.                    *)

\* format_engagement whose total leaves the comments out
format_engagement_without_comments(likes, shares, comments) ==
    [likes |-> likes, shares |-> shares, comments |-> comments,
     total |-> likes + shares]

\* utils.format_engagement
format_engagement(likes, shares, comments) ==
    [likes |-> likes, shares |-> shares, comments |-> comments,
     total |-> likes + shares + comments]

\* Mention.__init__: engagement is None or a dict and "engagement or {}" is
\* kept; sentiment is None or a string and is kept as it is.
MentionObject(platform, content, author, timestamp, engagement, sentiment) ==
    [platform   |-> platform,
     content    |-> content,
     author     |-> author,
     timestamp  |-> timestamp,
     engagement |-> IF engagement = None \/ DOMAIN engagement[1] = {}
                    THEN EmptyDict
                    ELSE engagement[1],
     sentiment  |-> sentiment]

\* bool(d) of a dict
TruthyDict(d) == DOMAIN d # {}

\* str.lower() on the platform names of the model
lower(s) ==
    CASE s = "Twitter"  -> "twitter"
      [] s = "Reddit"   -> "reddit"
      [] s = "REDDIT"   -> "reddit"
      [] s = "Web"      -> "web"
      [] s = "Mastodon" -> "mastodon"
      [] OTHER          -> s

---------------------------------------------------------------------------
(* OSINTApp: the aggregations (osint_app/app.py).  Each takes the list it  *)
(* is given, or self.results when it is given None.                        *)

\* "if mentions is None: mentions = self.results"
MentionsOrResults(given, self_results) ==
    IF given = None THEN self_results ELSE given[1]

\* the loop of get_sentiment_summary from position i on
RECURSIVE SentimentSummaryLoop(_, _, _)
SentimentSummaryLoop(ms, i, summary) ==
    IF i > Len(ms)
    THEN summary
    ELSE SentimentSummaryLoop(ms, i + 1,
             IF TruthyStr(ms[i].sentiment)
             THEN DictSet(summary, ms[i].sentiment[1],
                          DictGet(summary, ms[i].sentiment[1], 0) + 1)
             ELSE summary)

\* get_sentiment_summary that counts a mention without sentiment as neutral
get_sentiment_summary_default_neutral(given, self_results) ==
    SentimentSummaryLoop(
        [i \in DOMAIN MentionsOrResults(given, self_results) |->
            IF TruthyStr(MentionsOrResults(given, self_results)[i].sentiment)
            THEN MentionsOrResults(given, self_results)[i]
            ELSE [MentionsOrResults(given, self_results)[i]
                      EXCEPT !.sentiment = Some("neutral")]],
        1, [positive |-> 0, negative |-> 0, neutral |-> 0])

get_sentiment_summary(given, self_results) ==
    SentimentSummaryLoop(MentionsOrResults(given, self_results), 1,
                         [positive |-> 0, negative |-> 0, neutral |-> 0])

\* the loop of get_platform_summary from position i on
RECURSIVE PlatformSummaryLoop(_, _, _)
PlatformSummaryLoop(ms, i, summary) ==
    IF i > Len(ms)
    THEN summary
    ELSE LET platform == ms[i].platform
         IN  PlatformSummaryLoop(ms, i + 1,
                 DictSet(summary, platform, DictGet(summary, platform, 0) + 1))

\* get_platform_summary with the platform identifiers lower-cased
get_platform_summary_lower(given, self_results) ==
    PlatformSummaryLoop(
        [i \in DOMAIN MentionsOrResults(given, self_results) |->
            [MentionsOrResults(given, self_results)[i]
                 EXCEPT !.platform = lower(@)]],
        1, EmptyDict)

get_platform_summary(given, self_results) ==
    PlatformSummaryLoop(MentionsOrResults(given, self_results), 1, EmptyDict)

\* the loop of get_engagement_summary from position i on: the four counters
\* are added up separately, 'total' from the totals the mentions carry
RECURSIVE EngagementSummaryLoop(_, _, _)
EngagementSummaryLoop(ms, i, total_engagement) ==
    IF i > Len(ms)
    THEN total_engagement
    ELSE EngagementSummaryLoop(ms, i + 1,
             IF TruthyDict(ms[i].engagement)
             THEN [likes    |-> total_engagement.likes
                                    + DictGet(ms[i].engagement, "likes", 0),
                   shares   |-> total_engagement.shares
                                    + DictGet(ms[i].engagement, "shares", 0),
                   comments |-> total_engagement.comments
                                    + DictGet(ms[i].engagement, "comments", 0),
                   total    |-> total_engagement.total
                                    + DictGet(ms[i].engagement, "total", 0)]
             ELSE total_engagement)

get_engagement_summary(given, self_results) ==
    EngagementSummaryLoop(MentionsOrResults(given, self_results), 1,
                          [likes |-> 0, shares |-> 0, comments |-> 0, total |-> 0])

---------------------------------------------------------------------------
(* Inputs of the aggregations: Mention objects as a caller of the          *)
(* constructor can build them.  The sentiment is None, the empty string or *)
(* one of the three labels of the data model; the engagement is None, {},  *)
(* what format_engagement returns, a dict without 'total', or a dict whose *)
(* 'total' was given independently of the three counters.                  *)

GivenMentions ==
    { MentionObject("Twitter", "great", "@user1", 0,
                    Some(format_engagement(10, 5, 2)), Some("positive")),
      MentionObject("twitter", "awful", "@user2", 0,
                    Some([likes |-> 10, shares |-> 5]), Some("negative")),
      MentionObject("Reddit", "okay", "u/redditor1", 0,
                    None, None),
      MentionObject("Web", "okay", "Author 1", 0,
                    Some([likes |-> 1, shares |-> 1, comments |-> 1, total |-> 7]),
                    Some("neutral")),
      MentionObject("Web", "great", "Author 2", 0,
                    Some(EmptyDict), Some("")) }

---------------------------------------------------------------------------
(* Calls of the aggregations.  The caller builds a list in batch and hands *)
(* it over, or hands over None.                                            *)

GetSentimentSummary(given) ==
    /\ call' = [op    |-> "get_sentiment_summary",
                arg   |-> MentionsOrResults(given, app_results),
                value |-> get_sentiment_summary(given, app_results)]
    /\ UNCHANGED <<batch, mentions, queries, clock, inserted, app_results, monitors, tracked>>

GetPlatformSummary(given) ==
    /\ call' = [op    |-> "get_platform_summary",
                arg   |-> MentionsOrResults(given, app_results),
                value |-> get_platform_summary(given, app_results)]
    /\ UNCHANGED <<batch, mentions, queries, clock, inserted, app_results, monitors, tracked>>

GetEngagementSummary(given) ==
    /\ call' = [op    |-> "get_engagement_summary",
                arg   |-> MentionsOrResults(given, app_results),
                value |-> get_engagement_summary(given, app_results)]
    /\ UNCHANGED <<batch, mentions, queries, clock, inserted, app_results, monitors, tracked>>

NextAggregate ==
    \/ NewBatch
    \/ \E m \in GivenMentions : Collect(m)
    \/ GetSentimentSummary(Some(batch))
    \/ GetPlatformSummary(Some(batch))
    \/ GetEngagementSummary(Some(batch))

SpecAggregate == Init /\ [][NextAggregate]_vars

---------------------------------------------------------------------------
(* SentimentAnalyzer.get_statistics (osint_app/analyzers/sentiment.py).    *)
(* The averages and percentages are floats that are quotients of integers; *)
(* here a quotient is kept exact as the pair of its numerator and its      *)
(* denominator, so 0.0 is 0/1 and count / total * 100 is (count*100)/total.*)
(* Polarities and subjectivities stay in thousandths.                      *)

Frac(num, den) == [num |-> num, den |-> den]

\* the value None where the code expects the sentiment dict
PyNone == [NoneType |-> TRUE]

\* sum(xs) of a list of integers
RECURSIVE SumSeq(_)
SumSeq(xs) == IF xs = <<>> THEN 0 ELSE xs[1] + SumSeq(Tail(xs))

\* [m.get("sentiment", {}) for m in mentions if "sentiment" in m]
SentimentsOf(ms) ==
    LET having == SelectSeq(ms, LAMBDA m : m.sentiment # None)
    IN  [i \in DOMAIN having |-> having[i].sentiment[1]]

\* sum(1 for s in sentiments if s.get("sentiment") == label)
CountLabel(sentiments, label) ==
    Cardinality({i \in DOMAIN sentiments :
                   /\ "sentiment" \in DOMAIN sentiments[i]
                   /\ sentiments[i].sentiment = label})

\* get_statistics with the percentages taken over the mentions that have a
\* sentiment
SentimentAnalyzer_get_statistics_over_classified(ms) ==
    IF ms = <<>>
    THEN [outcome |-> "returned",
          value   |-> Some([total            |-> 0,
                            positive         |-> 0,
                            negative         |-> 0,
                            neutral          |-> 0,
                            avg_polarity     |-> Frac(0, 1),
                            avg_subjectivity |-> Frac(0, 1)])]
    ELSE LET sentiments == SentimentsOf(ms)
         IN  IF \E i \in DOMAIN sentiments : sentiments[i] = PyNone
             THEN [outcome |-> "raised", value |-> None]
             ELSE LET positive       == CountLabel(sentiments, "positive")
                      negative       == CountLabel(sentiments, "negative")
                      neutral        == CountLabel(sentiments, "neutral")
                      polarities     == [i \in DOMAIN sentiments |->
                                            DictGet(sentiments[i], "polarity", 0)]
                      subjectivities == [i \in DOMAIN sentiments |->
                                            DictGet(sentiments[i], "subjectivity", 0)]
                      Pct(count)     == IF sentiments # <<>>
                                        THEN Frac(count * 100, Len(sentiments))
                                        ELSE Frac(0, 1)
                  IN  [outcome |-> "returned",
                       value   |-> Some(
                           [total            |-> Len(ms),
                            positive         |-> positive,
                            negative         |-> negative,
                            neutral          |-> neutral,
                            avg_polarity     |-> IF polarities # <<>>
                                                 THEN Frac(SumSeq(polarities), Len(polarities))
                                                 ELSE Frac(0, 1),
                            avg_subjectivity |-> IF subjectivities # <<>>
                                                 THEN Frac(SumSeq(subjectivities),
                                                           Len(subjectivities))
                                                 ELSE Frac(0, 1),
                            positive_pct     |-> Pct(positive),
                            negative_pct     |-> Pct(negative),
                            neutral_pct      |-> Pct(neutral)])]

\* SentimentAnalyzer.get_statistics.  The empty list gets a dict of six keys
\* (no percentages).  Otherwise s.get is called on every sentiment value, which
\* raises AttributeError when the value is None, and the percentages divide by
\* len(mentions).
SentimentAnalyzer_get_statistics(ms) ==
    IF ms = <<>>
    THEN [outcome |-> "returned",
          value   |-> Some([total            |-> 0,
                            positive         |-> 0,
                            negative         |-> 0,
                            neutral          |-> 0,
                            avg_polarity     |-> Frac(0, 1),
                            avg_subjectivity |-> Frac(0, 1)])]
    ELSE LET sentiments == SentimentsOf(ms)
         IN  IF \E i \in DOMAIN sentiments : sentiments[i] = PyNone
             THEN [outcome |-> "raised", value |-> None]
             ELSE LET positive       == CountLabel(sentiments, "positive")
                      negative       == CountLabel(sentiments, "negative")
                      neutral        == CountLabel(sentiments, "neutral")
                      polarities     == [i \in DOMAIN sentiments |->
                                            DictGet(sentiments[i], "polarity", 0)]
                      subjectivities == [i \in DOMAIN sentiments |->
                                            DictGet(sentiments[i], "subjectivity", 0)]
                  IN  [outcome |-> "returned",
                       value   |-> Some(
                           [total            |-> Len(ms),
                            positive         |-> positive,
                            negative         |-> negative,
                            neutral          |-> neutral,
                            avg_polarity     |-> IF polarities # <<>>
                                                 THEN Frac(SumSeq(polarities), Len(polarities))
                                                 ELSE Frac(0, 1),
                            avg_subjectivity |-> IF subjectivities # <<>>
                                                 THEN Frac(SumSeq(subjectivities),
                                                           Len(subjectivities))
                                                 ELSE Frac(0, 1),
                            positive_pct     |-> Frac(positive * 100, Len(ms)),
                            negative_pct     |-> Frac(negative * 100, Len(ms)),
                            neutral_pct      |-> Frac(neutral * 100, Len(ms))])]

\* What is handed to get_statistics: mentions classified by analyze, a mention
\* without the key 'sentiment', one whose sentiment is the empty dict and one
\* whose sentiment is None.
Analyzed ==
    { Mention(Some("great"), "twitter", <<"ai">>, analyze("great").value),
      Mention(Some("awful"), "reddit",  <<"ai">>, analyze("awful").value),
      Mention(Some("okay"),  "twitter", <<"ai">>, analyze("okay").value),
      Mention(Some("okay"),  "web",     <<"ai">>, None),
      Mention(Some("okay"),  "web",     <<"ai">>, Some(EmptyDict)),
      Mention(Some("okay"),  "web",     <<"ai">>, Some(PyNone)) }

AnalyzerGetStatistics ==
    LET r == SentimentAnalyzer_get_statistics(batch)
    IN  /\ call' = [op      |-> "SentimentAnalyzer.get_statistics",
                    arg     |-> batch,
                    outcome |-> r.outcome,
                    value   |-> r.value]
        /\ UNCHANGED <<batch, mentions, queries, clock, inserted, app_results, monitors, tracked>>

NextStatistics ==
    \/ NewBatch
    \/ \E m \in Analyzed : Collect(m)
    \/ AnalyzerGetStatistics

SpecStatistics == Init /\ [][NextStatistics]_vars

---------------------------------------------------------------------------
(* BaseCollector (osint_app/collectors/base.py).  Where the code looks     *)
(* inside a string (lower-casing, the substring test) the string is the    *)
(* sequence of its characters.                                             *)

\* the most keywords a collector tracks
MaxTracked == 3

\* str.lower() on one character of the model's alphabet
LowerChar(c) ==
    CASE c = "A" -> "a"
      [] c = "I" -> "i"
      [] c = "M" -> "m"
      [] c = "L" -> "l"
      [] OTHER   -> c

\* str.lower()
str_lower(s) == [i \in DOMAIN s |-> LowerChar(s[i])]

\* "sub in s" of two strings
Contains(sub, s) ==
    \E i \in 1..(Len(s) - Len(sub) + 1) : SubSeq(s, i, i + Len(sub) - 1) = sub

\* BaseCollector._extract_keywords: the tracked keywords that pass the test,
\* one entry for each entry of the tracked list
extract_keywords(self_keywords, text) ==
    LET text_lower == str_lower(text)
    IN  SelectSeq(self_keywords, LAMBDA kw : Contains(str_lower(kw), text_lower))

\* BaseCollector._create_mention
create_mention(self_keywords, text, source) ==
    Mention(Some(text), source, extract_keywords(self_keywords, text), None)

\* the keywords of the model: "AI", "ai", "ML" and the empty string
TrackedKeywords == { <<"A", "I">>, <<"a", "i">>, <<"M", "L">>, <<>> }

\* the texts of the model: "AI ml", "mail", "Ai", "x" and the empty string
CollectedTexts ==
    { <<"A", "I", " ", "m", "l">>, <<"m", "a", "i", "l">>, <<"A", "i">>, <<"x">>, <<>> }

\* BaseCollector.__init__: the collector keeps the list it is given
NewCollector(kws) ==
    /\ tracked' = kws
    /\ call' = [op |-> "BaseCollector"]
    /\ UNCHANGED <<batch, mentions, queries, clock, inserted, app_results, monitors>>

CreateMention(text, source) ==
    /\ call' = [op      |-> "create_mention",
                text    |-> text,
                tracked |-> tracked,
                value   |-> create_mention(tracked, text, source)]
    /\ UNCHANGED <<batch, mentions, queries, clock, inserted, app_results, monitors, tracked>>

NextCollector ==
    \/ \E kws \in SeqsUpTo(TrackedKeywords, MaxTracked) : NewCollector(kws)
    \/ \E text \in CollectedTexts : CreateMention(text, "web_search")

SpecCollector == Init /\ [][NextCollector]_vars

---------------------------------------------------------------------------
(* ReportGenerator (osint_app/utils/reporter.py).  The text report is a    *)
(* list of lines joined by newlines; here it is the record of its          *)
(* sections in the order the lines are appended: the generation time, the  *)
(* overview and sentiment figures, the source lines and the lines of the   *)
(* recent mentions.  A mention's text is the sequence of its characters.   *)
(* The mention dicts of the model carry no author, so the "by <author>"    *)
(* part of a mention's head line is left out.                              *)

\* the longest list handed to the report generator
MaxReported == 6

\* the latest time datetime.now() returns
MaxClock == 1

\* mentions[:5]
RecentCount == 5

\* text[:100] and len(text) > 100
TextWidth == 100

\* the string "..."
Ellipsis == <<".", ".", ".">>

\* a float written with a format of fixed precision, the quotient q being in
\* units of the last digit kept: the nearest integer
Rounded(q) == (2 * q.num + q.den) \div (2 * q.den)

\* q * 10, for a percentage written with ":.1f"
Tenths(q) == Frac(q.num * 10, q.den)

\* q / 10, for a polarity in thousandths written with ":.2f"
Hundredths(q) == Frac(q.num, q.den * 10)

\* The loop that counts the sources.  The dict keeps its keys in the order
\* they were first set, so it is the list of its (source, count) items.
RECURSIVE SourcesLoop(_, _, _)
SourcesLoop(ms, i, sources) ==
    IF i > Len(ms)
    THEN sources
    ELSE LET source == ms[i].source
             known  == {j \in DOMAIN sources : sources[j].source = source}
         IN  SourcesLoop(ms, i + 1,
                 IF known = {}
                 THEN Append(sources, [source |-> source, count |-> 1])
                 ELSE [j \in DOMAIN sources |->
                          IF j \in known
                          THEN [sources[j] EXCEPT !.count = @ + 1]
                          ELSE sources[j]])

\* sorted(items, key=count, reverse=True) from item i on: a stable sort, so an
\* item goes behind the items already placed whose count is at least its own
RECURSIVE SortedLoop(_, _, _)
SortedLoop(items, i, placed) ==
    IF i > Len(items)
    THEN placed
    ELSE LET ahead == Cardinality({j \in DOMAIN placed :
                                     placed[j].count >= items[i].count})
         IN  SortedLoop(items, i + 1,
                 SubSeq(placed, 1, ahead) \o <<items[i]>>
                     \o SubSeq(placed, ahead + 1, Len(placed)))

\* the text line of a mention with the ellipsis from 100 characters on
Shown_from_width(text) ==
    SubSeq(text, 1, IF Len(text) < TextWidth THEN Len(text) ELSE TextWidth)
        \o (IF Len(text) >= TextWidth THEN Ellipsis ELSE <<>>)

\* f"{text[:100]}{'...' if len(text) > 100 else ''}"
Shown(text) ==
    SubSeq(text, 1, IF Len(text) < TextWidth THEN Len(text) ELSE TextWidth)
        \o (IF Len(text) > TextWidth THEN Ellipsis ELSE <<>>)

\* the lines of one of the first five mentions; the sentiment line is written
\* when the mention has a sentiment dict that is not empty
RecentLines(mention, i) ==
    LET text           == IF mention.text = None THEN <<>> ELSE mention.text[1]
        sentiment_data == IF mention.sentiment = None
                          THEN EmptyDict
                          ELSE mention.sentiment[1]
    IN  [index     |-> i,
         source    |-> mention.source,
         shown     |-> Shown(text),
         sentiment |-> IF TruthyDict(sentiment_data)
                       THEN Some([sentiment |-> DictGet(sentiment_data, "sentiment", "N/A"),
                                  polarity  |-> Rounded(Hundredths(
                                      Frac(DictGet(sentiment_data, "polarity", 0), 1)))])
                       ELSE None]

\* ReportGenerator.generate_summary
generate_summary(ms, sentiment_stats, now) ==
    LET recent == SliceTo(ms, RecentCount)
        Pct(key) == Rounded(Tenths(DictGet(sentiment_stats, key, Frac(0, 1))))
    IN  [generated    |-> now,
         total        |-> DictGet(sentiment_stats, "total", 0),
         positive     |-> DictGet(sentiment_stats, "positive", 0),
         positive_pct |-> Pct("positive_pct"),
         negative     |-> DictGet(sentiment_stats, "negative", 0),
         negative_pct |-> Pct("negative_pct"),
         neutral      |-> DictGet(sentiment_stats, "neutral", 0),
         neutral_pct  |-> Pct("neutral_pct"),
         avg_polarity |-> Rounded(DictGet(sentiment_stats, "avg_polarity", Frac(0, 1))),
         sources      |-> SortedLoop(SourcesLoop(ms, 1, <<>>), 1, <<>>),
         recent       |-> [i \in DOMAIN recent |-> RecentLines(recent[i], i)]]

\* generate_json that writes the generation time into every mention as well
generate_json_stamping(ms, sentiment_stats, now) ==
    [generated_at |-> now,
     summary      |-> sentiment_stats,
     mentions     |-> [i \in DOMAIN ms |-> [ms[i] EXCEPT !.timestamp = now]]]

\* ReportGenerator.generate_json: the JSON document, as the tree it writes
generate_json(ms, sentiment_stats, now) ==
    [generated_at |-> now,
     summary      |-> sentiment_stats,
     mentions     |-> ms]

\* the text made of n times the character c
Repeat(c, n) == [i \in 1..n |-> c]

\* What is handed to the report generator: analysed mentions of three sources
\* with a text shorter than 100 characters, of 100 characters and of 101.
Reported ==
    { Mention(Some(<<"h", "i">>), "twitter", <<"ai">>, analyze("great").value),
      Mention(Some(Repeat("a", TextWidth)), "reddit", <<"ai">>, None),
      Mention(Some(Repeat("a", TextWidth) \o <<"b">>), "web", <<"ai">>,
              analyze("just_neg").value) }

\* the statistics handed over with a list: what get_statistics returns for
\* it, or a mapping without any key
StatsFor(ms) ==
    IF SentimentAnalyzer_get_statistics(ms).outcome = "returned"
    THEN {EmptyDict, SentimentAnalyzer_get_statistics(ms).value[1]}
    ELSE {EmptyDict}

\* the caller's list grows by one mention
Extend(m) ==
    /\ Len(batch) < MaxReported
    /\ batch' = Append(batch, m)
    /\ call' = [op |-> "extend"]
    /\ UNCHANGED <<mentions, queries, clock, inserted, app_results, monitors, tracked>>

\* time passes
Tick ==
    /\ clock < MaxClock
    /\ clock' = clock + 1
    /\ UNCHANGED <<batch, call, mentions, queries, inserted, app_results, monitors, tracked>>

\* what the last call returned, when it was a call of op with these arguments
PreviousReport(op, ms, sentiment_stats) ==
    IF call.op = op /\ call.arg = ms /\ call.stats = sentiment_stats
    THEN Some(call.value)
    ELSE None

GenerateSummary(sentiment_stats) ==
    /\ call' = [op       |-> "generate_summary",
                arg      |-> batch,
                stats    |-> sentiment_stats,
                value    |-> generate_summary(batch, sentiment_stats, clock),
                previous |-> PreviousReport("generate_summary", batch, sentiment_stats)]
    /\ UNCHANGED <<batch, mentions, queries, clock, inserted, app_results, monitors, tracked>>

GenerateJson(sentiment_stats) ==
    /\ call' = [op       |-> "generate_json",
                arg      |-> batch,
                stats    |-> sentiment_stats,
                value    |-> generate_json(batch, sentiment_stats, clock),
                previous |-> PreviousReport("generate_json", batch, sentiment_stats)]
    /\ UNCHANGED <<batch, mentions, queries, clock, inserted, app_results, monitors, tracked>>

NextReport ==
    \/ \E m \in Reported : Extend(m)
    \/ Tick
    \/ AnalyzerGetStatistics
    \/ \E sentiment_stats \in StatsFor(batch) : GenerateSummary(sentiment_stats)
    \/ \E sentiment_stats \in StatsFor(batch) : GenerateJson(sentiment_stats)

SpecReport == Init /\ [][NextReport]_vars

---------------------------------------------------------------------------
(* The monitors (osint_app/monitors) and OSINTApp.search, add_monitor      *)
(* (osint_app/app.py).  OSINTApp.monitors is a dict whose keys keep the    *)
(* order they were first set in, so it is the list of its items.           *)

\* max_results is None, an integer n, written Some(n), or a float with a
\* fractional part of one half, k + 0.5, written Half(k)
Half(k) == <<k, 5>>

IsHalf(max_results) == Len(max_results) = 2

\* <monitor class>._get_demo_data: one Mention for each of the first
\* min(max_results, n) demo texts.  min raises TypeError when max_results is
\* None; when max_results is a float below n, min returns that float and the
\* slice raises TypeError; when it is a float above n, min returns n.
DemoData(platform_name, texts, authors, likes, shares, comments, max_results, now) ==
    IF max_results = None \/ (IsHalf(max_results) /\ max_results[1] < Len(texts))
    THEN [outcome |-> "raised", value |-> <<>>]
    ELSE LET n     == IF IsHalf(max_results) THEN Len(texts)
                      ELSE IF max_results[1] < Len(texts) THEN max_results[1]
                      ELSE Len(texts)
             taken == SliceTo(texts, n)
         IN  [outcome |-> "returned",
              value   |-> [i \in DOMAIN taken |->
                              MentionObject(platform_name, taken[i], authors[i], now,
                                            Some(format_engagement(likes * i,
                                                                   shares * i,
                                                                   comments * i)),
                                            Some(analyze_sentiment(taken[i])))]]

\* monitor.search(query), by the class of the monitor
monitor_search(monitor, query_keywords, max_results, now) ==
    LET keyword == IF query_keywords # <<>> THEN query_keywords[1] ELSE "example"
    IN  CASE monitor = "TwitterMonitor" ->
                 DemoData("Twitter", demo_tweets(keyword),
                          <<"@user1", "@user2", "@user3", "@user4", "@user5">>,
                          10, 5, 2, max_results, now)
          [] monitor = "RedditMonitor" ->
                 DemoData("Reddit", demo_posts(keyword),
                          <<"u/redditor1", "u/redditor2", "u/redditor3", "u/redditor4">>,
                          50, 0, 15, max_results, now)
          [] monitor = "WebMonitor" ->
                 DemoData("Web", demo_articles(keyword),
                          <<"Author 1", "Author 2", "Author 3">>,
                          30, 10, 8, max_results, now)

\* get_monitor that falls back to the web monitor for an unknown platform
get_monitor_fallback(platform) ==
    IF lower(platform) = "twitter"
    THEN [outcome |-> "returned", error |-> "", value |-> Some("TwitterMonitor")]
    ELSE IF lower(platform) = "reddit"
    THEN [outcome |-> "returned", error |-> "", value |-> Some("RedditMonitor")]
    ELSE [outcome |-> "returned", error |-> "", value |-> Some("WebMonitor")]

\* monitors.get_monitor
get_monitor(platform) ==
    IF lower(platform) = "twitter"
    THEN [outcome |-> "returned", error |-> "", value |-> Some("TwitterMonitor")]
    ELSE IF lower(platform) = "reddit"
    THEN [outcome |-> "returned", error |-> "", value |-> Some("RedditMonitor")]
    ELSE IF lower(platform) = "web"
    THEN [outcome |-> "returned", error |-> "", value |-> Some("WebMonitor")]
    ELSE [outcome |-> "raised", error |-> "ValueError: Unsupported platform",
          value |-> None]

\* "key in self.monitors", self.monitors.keys(), self.monitors[key]
HasMonitor(self_monitors, key) ==
    \E i \in DOMAIN self_monitors : self_monitors[i].key = key

MonitorKeys(self_monitors) == [i \in DOMAIN self_monitors |-> self_monitors[i].key]

MonitorAt(self_monitors, key) ==
    self_monitors[CHOOSE i \in DOMAIN self_monitors : self_monitors[i].key = key].monitor

\* OSINTApp.add_monitor: the error of get_monitor leaves add_monitor before
\* anything is stored
add_monitor(self_monitors, platform) ==
    LET monitor == get_monitor(platform)
    IN  IF monitor.outcome = "raised"
        THEN [outcome |-> "raised", error |-> monitor.error, monitors |-> self_monitors]
        ELSE [outcome  |-> "returned",
              error    |-> "",
              monitors |-> IF HasMonitor(self_monitors, lower(platform))
                           THEN [i \in DOMAIN self_monitors |->
                                    IF self_monitors[i].key = lower(platform)
                                    THEN [self_monitors[i] EXCEPT !.monitor = monitor.value[1]]
                                    ELSE self_monitors[i]]
                           ELSE Append(self_monitors,
                                       [key |-> lower(platform), monitor |-> monitor.value[1]])]

\* The loop of search without the try block around monitor.search: the error
\* of a monitor leaves search
RECURSIVE SearchLoop_unguarded(_, _, _, _, _, _, _)
SearchLoop_unguarded(self_monitors, query_keywords, platforms, i, max_results, all_mentions, now) ==
    IF i > Len(platforms)
    THEN [outcome |-> "returned", error |-> "", monitors |-> self_monitors,
          all_mentions |-> all_mentions]
    ELSE LET platform_key == lower(platforms[i])
             added == IF HasMonitor(self_monitors, platform_key)
                      THEN [outcome |-> "returned", error |-> "", monitors |-> self_monitors]
                      ELSE add_monitor(self_monitors, platform_key)
         IN  IF added.outcome = "raised"
             THEN [outcome |-> "raised", error |-> added.error, monitors |-> self_monitors,
                   all_mentions |-> all_mentions]
             ELSE LET found == monitor_search(MonitorAt(added.monitors, platform_key),
                                              query_keywords, max_results, now)
                  IN  IF found.outcome = "raised"
                      THEN [outcome |-> "raised", error |-> "TypeError",
                            monitors |-> added.monitors, all_mentions |-> all_mentions]
                      ELSE SearchLoop_unguarded(added.monitors, query_keywords, platforms,
                                                i + 1, max_results,
                                                all_mentions \o found.value, now)

\* The loop of search from platform i on.  add_monitor is called outside the
\* try block, so its error leaves search; an error of monitor.search is
\* caught and the platform contributes nothing.
RECURSIVE SearchLoop(_, _, _, _, _, _, _)
SearchLoop(self_monitors, query_keywords, platforms, i, max_results, all_mentions, now) ==
    IF i > Len(platforms)
    THEN [outcome |-> "returned", error |-> "", monitors |-> self_monitors,
          all_mentions |-> all_mentions]
    ELSE LET platform_key == lower(platforms[i])
             added == IF HasMonitor(self_monitors, platform_key)
                      THEN [outcome |-> "returned", error |-> "", monitors |-> self_monitors]
                      ELSE add_monitor(self_monitors, platform_key)
         IN  IF added.outcome = "raised"
             THEN [outcome |-> "raised", error |-> added.error, monitors |-> self_monitors,
                   all_mentions |-> all_mentions]
             ELSE LET found == monitor_search(MonitorAt(added.monitors, platform_key),
                                              query_keywords, max_results, now)
                  IN  SearchLoop(added.monitors, query_keywords, platforms, i + 1,
                                 max_results,
                                 IF found.outcome = "raised"
                                 THEN all_mentions
                                 ELSE all_mentions \o found.value,
                                 now)

\* OSINTApp.search
search(self_monitors, query_keywords, platforms, max_results, now) ==
    SearchLoop(self_monitors, query_keywords,
               IF platforms = None THEN MonitorKeys(self_monitors) ELSE platforms[1],
               1, max_results, <<>>, now)

---------------------------------------------------------------------------
(* Inputs and calls of OSINTApp *)

PlatformNames == {"Twitter", "REDDIT", "web", "mastodon", ""}

PlatformLists ==
    { None, Some(<<"web">>), Some(<<"Twitter", "REDDIT">>),
      Some(<<"web", "mastodon">>), Some(<<"Mastodon", "twitter">>) }

KeywordLists == { <<>>, <<"ai", "ml">> }

MaxResultsArgs == { None, Some(-1), Some(0), Some(2), Some(100), Half(4) }

GetMonitor(platform) ==
    /\ call' = [op       |-> "get_monitor",
                platform |-> platform,
                outcome  |-> get_monitor(platform).outcome,
                error    |-> get_monitor(platform).error,
                value    |-> get_monitor(platform).value]
    /\ UNCHANGED <<batch, mentions, queries, clock, inserted, app_results, monitors, tracked>>

AddMonitor(platform) ==
    LET r == add_monitor(monitors, platform)
    IN  /\ monitors' = r.monitors
        /\ call' = [op       |-> "add_monitor",
                    platform |-> platform,
                    outcome  |-> r.outcome,
                    error    |-> r.error]
        /\ UNCHANGED <<batch, mentions, queries, clock, inserted, app_results, tracked>>

\* search stores what it found in self.results just before it returns; when
\* it is left by an error self.results keeps what it held
Search(query_keywords, platforms, max_results) ==
    LET r == search(monitors, query_keywords, platforms, max_results, clock)
    IN  /\ monitors' = r.monitors
        /\ app_results' = IF r.outcome = "returned" THEN r.all_mentions ELSE app_results
        /\ call' = [op          |-> "search",
                    keywords    |-> query_keywords,
                    platforms   |-> platforms,
                    max_results |-> max_results,
                    outcome     |-> r.outcome,
                    error       |-> r.error,
                    value       |-> IF r.outcome = "returned"
                                    THEN Some(r.all_mentions)
                                    ELSE None]
        /\ UNCHANGED <<batch, mentions, queries, clock, inserted, tracked>>

NextApp ==
    \/ \E platform \in PlatformNames : GetMonitor(platform)
    \/ \E platform \in PlatformNames : AddMonitor(platform)
    \/ \E query_keywords \in KeywordLists, platforms \in PlatformLists,
          max_results \in MaxResultsArgs :
           Search(query_keywords, platforms, max_results)
    \/ GetSentimentSummary(None)
    \/ GetPlatformSummary(None)
    \/ GetEngagementSummary(None)

SpecApp == Init /\ [][NextApp]_vars

---------------------------------------------------------------------------
(* OSINTApp: the filters (osint_app/app.py).  Each takes the list it is    *)
(* given, or self.results when it is given None, and returns the mentions  *)
(* that pass its test as they are.                                         *)

\* filter_by_platform that compares the platform identifiers as they are
filter_by_platform_exact(platform, given, self_results) ==
    SelectSeq(MentionsOrResults(given, self_results),
              LAMBDA m : m.platform = platform)

\* filter_by_platform: m.platform.lower() == platform.lower()
filter_by_platform(platform, given, self_results) ==
    SelectSeq(MentionsOrResults(given, self_results),
              LAMBDA m : lower(m.platform) = lower(platform))

\* filter_by_sentiment: m.sentiment == sentiment, where sentiment is a string
\* and m.sentiment a string or None
filter_by_sentiment(sentiment, given, self_results) ==
    SelectSeq(MentionsOrResults(given, self_results),
              LAMBDA m : m.sentiment # None /\ m.sentiment[1] = sentiment)

\* the platform arguments of filter_by_platform
PlatformArgs == {"Twitter", "REDDIT", "web", "mastodon"}

\* the sentiment arguments of filter_by_sentiment
SentimentLabelArgs == {"positive", "neutral", "Neutral", ""}

\* The caller hands over the list built in batch.
FilterByPlatform(platform, given) ==
    /\ call' = [op       |-> "filter_by_platform",
                platform |-> platform,
                value    |-> filter_by_platform(platform, given, app_results)]
    /\ UNCHANGED <<batch, mentions, queries, clock, inserted, app_results, monitors, tracked>>

FilterBySentiment(sentiment, given) ==
    /\ call' = [op        |-> "filter_by_sentiment",
                sentiment |-> sentiment,
                value     |-> filter_by_sentiment(sentiment, given, app_results)]
    /\ UNCHANGED <<batch, mentions, queries, clock, inserted, app_results, monitors, tracked>>

NextFilter ==
    \/ NewBatch
    \/ \E m \in GivenMentions : Collect(m)
    \/ \E platform \in PlatformArgs : FilterByPlatform(platform, Some(batch))
    \/ \E sentiment \in SentimentLabelArgs : FilterBySentiment(sentiment, Some(batch))

SpecFilter == Init /\ [][NextFilter]_vars

---------------------------------------------------------------------------
(* The collectors (osint_app/collectors/web_collector.py) and the collect  *)
(* command (osint_app/cli.py).  One run of the command goes through its    *)
(* steps one call at a time: call.step is the step it has just completed,  *)
(* batch is its local list all_mentions, tracked the keyword list its      *)
(* collectors are built with.  The store outlives the run: the next run    *)
(* opens the same tables.                                                  *)

\* the most runs of the command
MaxRuns == 2

\* the f-strings of the placeholder collectors, written out for the two
\* keywords of the model
web_text(keyword) ==
    CASE keyword = "ai" -> "Sample mention of ai from web search"
      [] keyword = "ml" -> "Sample mention of ml from web search"

news_text(keyword) ==
    CASE keyword = "ai" -> "Breaking news about ai"
      [] keyword = "ml" -> "Breaking news about ml"

social_text(platform, keyword) ==
    CASE platform = "twitter" /\ keyword = "ai" ->
             "Social media post mentioning ai on twitter"
      [] platform = "twitter" /\ keyword = "ml" ->
             "Social media post mentioning ml on twitter"
      [] platform = "reddit" /\ keyword = "ai" ->
             "Social media post mentioning ai on reddit"
      [] platform = "reddit" /\ keyword = "ml" ->
             "Social media post mentioning ml on reddit"

\* _extract_keywords on a text of the placeholder collectors: "ai" and "ml"
\* occur in such a text only where the f-string puts the keyword, so the
\* tracked keywords found in it are the entries equal to that keyword
KeywordsFound(self_keywords, keyword) ==
    SelectSeq(self_keywords, LAMBDA kw : kw = keyword)

\* WebSearchCollector.collect: one mention for each keyword
WebSearchCollector_collect(self_keywords) ==
    [i \in DOMAIN self_keywords |->
        Mention(Some(web_text(self_keywords[i])), "web_search",
                KeywordsFound(self_keywords, self_keywords[i]), None)]

\* NewsCollector.collect: one mention for each keyword
NewsCollector_collect(self_keywords) ==
    [i \in DOMAIN self_keywords |->
        Mention(Some(news_text(self_keywords[i])), "news",
                KeywordsFound(self_keywords, self_keywords[i]), None)]

\* SocialMediaCollector.collect: for each platform, one mention for each
\* keyword
SocialMediaCollector_collect(self_keywords, platforms) ==
    [n \in 1..(Len(platforms) * Len(self_keywords)) |->
        LET p == ((n - 1) \div Len(self_keywords)) + 1
            k == ((n - 1) % Len(self_keywords)) + 1
        IN  Mention(Some(social_text(platforms[p], self_keywords[k])), platforms[p],
                    KeywordsFound(self_keywords, self_keywords[k]), None)]

\* "x in sources" of a tuple
InTuple(x, sources) == \E i \in DOMAIN sources : sources[i] = x

\* the three "if ... in sources" blocks of collect that fill all_mentions
collect_all_mentions(keywords_list, sources) ==
    (IF InTuple("web", sources)
     THEN WebSearchCollector_collect(keywords_list) ELSE <<>>)
    \o (IF InTuple("news", sources)
        THEN NewsCollector_collect(keywords_list) ELSE <<>>)
    \o (IF InTuple("social", sources)
        THEN SocialMediaCollector_collect(keywords_list, <<"twitter", "reddit">>)
        ELSE <<>>)

\* the --keywords and --sources options: at least one keyword; the default
\* sources, one source, and a source the command does not know
KeywordOptions == { <<"ai">>, <<"ai", "ml">> }

SourceOptions == { <<"web", "news", "social">>, <<"news">>, <<"blog">> }

\* a run is under way
Running == call.op = "collect" /\ call.step \notin {"done", "raised"}

\* the runs started so far
Runs == IF call.op = "collect" THEN call.run ELSE 0

\* the command starts and collects from the sources named
CollectCollect(keywords, sources) ==
    /\ ~ Running
    /\ Runs < MaxRuns
    /\ tracked' = keywords
    /\ batch' = collect_all_mentions(keywords, sources)
    /\ call' = [op |-> "collect", step |-> "collected", run |-> Runs + 1,
                keywords |-> keywords, sources |-> sources]
    /\ UNCHANGED <<mentions, queries, clock, inserted, app_results, monitors>>

\* all_mentions = analyzer.analyze_batch(all_mentions)
CollectAnalyze ==
    /\ Running /\ call.step = "collected"
    /\ LET analyzed == analyze_batch(batch)
       IN  /\ batch' = analyzed.list
           /\ call' = [call EXCEPT !.step = IF analyzed.outcome = "raised"
                                            THEN "raised"
                                            ELSE "analyzed"]
    /\ UNCHANGED <<mentions, queries, clock, inserted, app_results, monitors, tracked>>

\* db.save_mentions(all_mentions): the stamp is written into the dicts of
\* all_mentions themselves
CollectSaveMentions ==
    /\ Running /\ call.step = "analyzed"
    /\ mentions' = save_mentions(mentions, batch, clock)
    /\ inserted' = inserted \o batch
    /\ batch' = [i \in DOMAIN batch |-> [batch[i] EXCEPT !.saved_at = Some(clock)]]
    /\ call' = [call EXCEPT !.step = "saved"]
    /\ UNCHANGED <<queries, clock, app_results, monitors, tracked>>

\* db.save_query(keywords_list, list(sources), len(all_mentions))
CollectSaveQuery ==
    /\ Running /\ call.step = "saved"
    /\ queries' = save_query(queries, call.keywords, call.sources, Len(batch), clock)
    /\ call' = [call EXCEPT !.step = "logged"]
    /\ UNCHANGED <<batch, mentions, clock, inserted, app_results, monitors, tracked>>

\* the sentiment summary: stats['positive_pct'] raises KeyError when
\* all_mentions is empty, and the command ends with that error
CollectSummary ==
    /\ Running /\ call.step = "logged"
    /\ LET stats == SentimentAnalyzer_get_statistics(batch)
       IN  call' = [call EXCEPT !.step =
                       IF stats.outcome = "raised"
                          \/ "positive_pct" \notin DOMAIN stats.value[1]
                       THEN "raised"
                       ELSE "done"]
    /\ UNCHANGED <<batch, mentions, queries, clock, inserted, app_results, monitors, tracked>>

NextCollect ==
    \/ \E keywords \in KeywordOptions, sources \in SourceOptions :
           CollectCollect(keywords, sources)
    \/ CollectAnalyze
    \/ CollectSaveMentions
    \/ CollectSaveQuery
    \/ CollectSummary

SpecCollect == Init /\ [][NextCollect]_vars

---------------------------------------------------------------------------
(* Claims about the classifier *)

Labels == {"positive", "negative", "neutral"}

\* the label rule of the specification, stated on a (label, polarity) pair
LabelFollowsThresholds(label, polarity) ==
    /\ label \in Labels
    /\ label = "positive" <=> polarity > 100
    /\ label = "negative" <=> polarity < -100
    /\ label = "neutral"  <=> (polarity >= -100 /\ polarity <= 100)

\* C1: whenever analyze or analyze_sentiment classifies a text, the label is
\* one of positive, negative, neutral and follows the exclusive thresholds:
\* polarity > 0.1 positive, polarity < -0.1 negative, otherwise (0.1 and -0.1
\* included) neutral.
C1_LabelRule ==
    /\ (call.op = "analyze" /\ call.result.outcome = "returned")
           => LabelFollowsThresholds(call.result.value[1].sentiment,
                                     call.result.value[1].polarity)
    /\ (call.op = "analyze_sentiment" /\ ~TextBlobRaises(call.text))
           => LabelFollowsThresholds(call.result, TextBlobPolarity(call.text))

\* analyze has classified a text whose polarity is exactly 0.1
C1_Witness ==
    /\ call.op = "analyze"
    /\ call.result.outcome = "returned"
    /\ call.result.value[1].polarity = 100
    /\ call.result.value[1].sentiment = "neutral"

\* C2: when the text-analysis call fails, analyze does not raise: it returns
\* label neutral with polarity 0 and subjectivity 0.
C2_AnalyzeAbsorbsFailure ==
    (call.op = "analyze" /\ TextBlobRaises(call.text))
        => /\ call.result.outcome = "returned"
           /\ call.result.value[1].sentiment = "neutral"
           /\ call.result.value[1].polarity = 0
           /\ call.result.value[1].subjectivity = 0

\* C3: analyze_batch returns the list it was given, with the same length and
\* order; a mention with text ends with sentiment = analyze(text), a mention
\* without text is unchanged (sentiment still unset), and a batch in which no
\* text makes the analysis fail never raises.
C3_BatchPopulates ==
    call.op = "analyze_batch" =>
        /\ (\A i \in 1..Len(call.arg) :
                \/ call.arg[i].text = None
                \/ ~TextBlobRaises(call.arg[i].text[1]))
              => call.outcome = "returned"
        /\ call.outcome = "returned" =>
              LET out == call.value[1]
              IN  /\ out = call.after
                  /\ Len(out) = Len(call.arg)
                  /\ \A i \in 1..Len(out) :
                        /\ [out[i] EXCEPT !.sentiment = None]
                             = [call.arg[i] EXCEPT !.sentiment = None]
                        /\ call.arg[i].text # None
                             => out[i].sentiment = analyze(call.arg[i].text[1]).value
                        /\ call.arg[i].text # None => out[i].sentiment # None
                        /\ call.arg[i].text = None
                             => (out[i] = call.arg[i] /\ out[i].sentiment = None)

\* a batch of three, with and without text, has been analysed
C3_Witness ==
    /\ call.op = "analyze_batch"
    /\ call.outcome = "returned"
    /\ Len(call.arg) = 3
    /\ \E i, j \in 1..3 :
          /\ call.arg[i].text = None
          /\ call.arg[j].text # None
          /\ call.arg[j].sentiment = None
          /\ call.value[1][j].sentiment # None

\* C4: a failure while classifying one mention does not affect the others:
\* analyze_batch still returns the whole batch and every other mention that
\* has text ends with its sentiment populated.
C4_BatchSurvivesFailure ==
    call.op = "analyze_batch" =>
        /\ call.outcome = "returned"
        /\ Len(call.after) = Len(call.arg)
        /\ \A i \in 1..Len(call.after) :
              (call.arg[i].text # None /\ ~TextBlobRaises(call.arg[i].text[1]))
                  => call.after[i].sentiment # None

---------------------------------------------------------------------------
(* Claims about the store *)

\* C5: starting from an empty store, after save_mention and save_mentions
\* calls that inserted N mentions, get_mentions with no filter and no limit
\* returns exactly N records, in insertion order, each equal to the inserted
\* mention in every field but saved_at, which it carries.
C5_RoundTrip ==
    (/\ call.op = "get_mentions"
     /\ call.limit = None /\ call.source = None /\ call.keyword = None)
        => /\ Len(call.value) = Len(inserted)
           /\ \A i \in 1..Len(call.value) :
                 /\ call.value[i].saved_at # None
                 /\ [call.value[i] EXCEPT !.saved_at = inserted[i].saved_at]
                      = inserted[i]

\* three mentions, not all alike, have been read back
C5_Witness ==
    /\ call.op = "get_mentions"
    /\ call.limit = None /\ call.source = None /\ call.keyword = None
    /\ Len(inserted) = 3
    /\ Len(call.value) = 3
    /\ inserted[1] # inserted[2]

\* a filter argument is given when it is a non-empty string
Given(x) == x # None /\ x[1] # ""

\* C6: without a limit, get_mentions returns exactly the stored mentions, in
\* store order, that satisfy every given filter: stored source equal to the
\* source argument (exact, case-sensitive) and keyword argument an element
\* of the stored keyword list; nothing matching gives the empty list.  An
\* argument counts as given when it is a non-empty string.
C6_FilterConjunction ==
    (call.op = "get_mentions" /\ call.limit = None)
        => call.value =
             SelectSeq(mentions,
                 LAMBDA m :
                     /\ Given(call.source) => m.source = call.source[1]
                     /\ Given(call.keyword) =>
                            \E i \in 1..Len(m.keywords) : m.keywords[i] = call.keyword[1])

\* both filters given; one of three stored mentions satisfies both, another
\* satisfies the source alone
C6_Witness ==
    /\ call.op = "get_mentions"
    /\ call.limit = None
    /\ call.source = Some("twitter")
    /\ call.keyword = Some("ml")
    /\ Len(mentions) = 3
    /\ Len(call.value) = 1
    /\ \E i \in 1..3 : mentions[i].source = "twitter" /\ mentions[i].keywords = <<"ai">>

\* C7: whenever a limit >= 0 is given (0 included), get_mentions and
\* get_by_sentiment return exactly the first `limit` matches in store order,
\* so never more than `limit` records.
C7_LimitIsHardCap ==
    /\ (call.op = "get_mentions" /\ call.limit # None /\ call.limit[1] >= 0)
          => LET matches == get_mentions(mentions, None, call.source, call.keyword)
                 n == IF call.limit[1] < Len(matches) THEN call.limit[1] ELSE Len(matches)
             IN  /\ Len(call.value) <= call.limit[1]
                 /\ call.value = SubSeq(matches, 1, n)
    /\ (call.op = "get_by_sentiment" /\ call.limit # None /\ call.limit[1] >= 0)
          => LET matches == get_by_sentiment(mentions, call.sentiment, None)
                 n == IF call.limit[1] < Len(matches) THEN call.limit[1] ELSE Len(matches)
             IN  /\ Len(call.value) <= call.limit[1]
                 /\ call.value = SubSeq(matches, 1, n)

\* C8: right after clear_all, whatever was stored and logged before,
\* get_statistics reports total_mentions 0, total_queries 0, no source and
\* every sentiment count 0, and get_mentions returns the empty list.
C8_ClearAllEmpties ==
    call.op = "clear_all"
        => /\ get_statistics(mentions, queries) =
                [total_mentions |-> 0,
                 sources        |-> <<>>,
                 sentiments     |-> [positive |-> 0, negative |-> 0, neutral |-> 0],
                 total_queries  |-> 0]
           /\ get_mentions(mentions, None, None, None) = <<>>

\* clear_all has run on a store that held mentions and a logged query
C8_Witness ==
    /\ call.op = "clear_all"
    /\ call.mentions_before > 0
    /\ call.queries_before > 0

RECURSIVE SumOver(_, _)
SumOver(d, keys) ==
    IF keys = {} THEN 0
    ELSE LET k == CHOOSE x \in keys : TRUE
         IN  d[k] + SumOver(d, keys \ {k})

\* C9: what get_statistics returns agrees with the store as it is:
\* total_mentions is the number of stored mentions, the per-source counts
\* have one key per stored source, each the number of stored mentions with
\* that source, and they sum to total_mentions.
C9_StatisticsConsistent ==
    call.op = "get_statistics"
        => LET st == call.value
           IN  /\ st.total_mentions = Len(mentions)
               /\ DOMAIN st.sources = {mentions[i].source : i \in 1..Len(mentions)}
               /\ \A s \in DOMAIN st.sources :
                     st.sources[s] =
                         Cardinality({i \in 1..Len(mentions) : mentions[i].source = s})
               /\ SumOver(st.sources, DOMAIN st.sources) = st.total_mentions

\* statistics of a store of three mentions from two sources, one source twice
C9_Witness ==
    /\ call.op = "get_statistics"
    /\ Len(mentions) = 3
    /\ Cardinality(DOMAIN call.value.sources) = 2
    /\ \E s \in DOMAIN call.value.sources : call.value.sources[s] = 2

\* C10: each per-sentiment count of get_statistics is the number of stored
\* mentions whose sentiment label is that label; a stored mention without
\* sentiment is in none of the three counts.
C10_SentimentCounts ==
    call.op = "get_statistics"
        => \A label \in Labels :
               call.value.sentiments[label] =
                   Cardinality({i \in 1..Len(mentions) :
                                   /\ mentions[i].sentiment # None
                                   /\ mentions[i].sentiment[1].sentiment = label})

---------------------------------------------------------------------------
(* Claims about the aggregations of OSINTApp *)

\* the number of mentions of the list ms that satisfy Test
CountWhere(ms, Test(_)) == Cardinality({i \in DOMAIN ms : Test(ms[i])})

\* C11: get_sentiment_summary returns exactly the three counters positive,
\* negative and neutral, each the number of given mentions that carry that
\* label; a mention with no sentiment set (None or the empty string) is
\* skipped and not counted as neutral, so the three counters sum to the
\* number of mentions that have a sentiment.  The mentions given carry, as the
\* data model requires, no sentiment or one of the three labels.
C11_SentimentSummary ==
    call.op = "get_sentiment_summary" =>
        /\ DOMAIN call.value = Labels
        /\ \A label \in Labels :
               call.value[label] =
                   CountWhere(call.arg, LAMBDA m : m.sentiment = Some(label))
        /\ call.value["positive"] + call.value["negative"] + call.value["neutral"]
               = CountWhere(call.arg, LAMBDA m : m.sentiment # None /\ m.sentiment # Some(""))

\* a summary of a list with a labelled mention, a mention whose sentiment is
\* None and one whose sentiment is the empty string
C11_Witness ==
    /\ call.op = "get_sentiment_summary"
    /\ \E i \in DOMAIN call.arg : call.arg[i].sentiment = None
    /\ \E i \in DOMAIN call.arg : call.arg[i].sentiment = Some("")
    /\ \E i \in DOMAIN call.arg : call.arg[i].sentiment = Some("neutral")
    /\ call.value["neutral"] = 1

\* the sum of the counter key over the mentions ms[1..i], a missing counter
\* and a mention without engagement counting 0
RECURSIVE EngagementSum(_, _, _)
EngagementSum(ms, i, key) ==
    IF i = 0
    THEN 0
    ELSE EngagementSum(ms, i - 1, key)
             + (IF key \in DOMAIN ms[i].engagement THEN ms[i].engagement[key] ELSE 0)

\* C12: for any list of mentions the engagement summary has likes, shares and
\* comments each equal to the sum of that counter over all mentions (a missing
\* counter and a mention without engagement count 0) and total equal to
\* likes + shares + comments, also when a mention's engagement lacks 'total'
\* or carries a 'total' that was supplied independently.
C12_EngagementTotal ==
    call.op = "get_engagement_summary" =>
        /\ call.value.likes    = EngagementSum(call.arg, Len(call.arg), "likes")
        /\ call.value.shares   = EngagementSum(call.arg, Len(call.arg), "shares")
        /\ call.value.comments = EngagementSum(call.arg, Len(call.arg), "comments")
        /\ call.value.total = call.value.likes + call.value.shares + call.value.comments

\* C16: get_platform_summary has one key for each platform identifier of the
\* given mentions, exactly as stored ("Twitter" and "twitter" are two keys),
\* mapped to the number of given mentions with that identifier; the counts
\* sum to the number of mentions and no key has count 0.
C16_PlatformSummary ==
    call.op = "get_platform_summary" =>
        /\ DOMAIN call.value = {call.arg[i].platform : i \in DOMAIN call.arg}
        /\ \A platform \in DOMAIN call.value :
               /\ call.value[platform] =
                      CountWhere(call.arg, LAMBDA m : m.platform = platform)
               /\ call.value[platform] > 0
        /\ SumOver(call.value, DOMAIN call.value) = Len(call.arg)

\* a summary of mentions stored under "Twitter" and under "twitter", with two
\* mentions under one of the keys
C16_Witness ==
    /\ call.op = "get_platform_summary"
    /\ {"Twitter", "twitter"} \subseteq DOMAIN call.value
    /\ call.value["twitter"] = 2
    /\ call.value["Twitter"] = 1

---------------------------------------------------------------------------
(* Claims about SentimentAnalyzer.get_statistics *)

\* the quotient q is 0.0
IsZero(q) == q.num = 0

\* the quotients p and q are the same number
FracEq(p, q) == p.num * q.den = q.num * p.den

\* p + q
FracAdd(p, q) == Frac(p.num * q.den + q.num * p.den, p.den * q.den)

\* the mention dict m has a sentiment with the label
HasLabel(m, label) ==
    /\ m.sentiment # None
    /\ "sentiment" \in DOMAIN m.sentiment[1]
    /\ m.sentiment[1].sentiment = label

\* C13: get_statistics on the empty list returns, without raising, total 0,
\* the three per-label counts 0, and 0.0 for each of the three percentages
\* and for both averages.
C13_EmptyStatistics ==
    (call.op = "SentimentAnalyzer.get_statistics" /\ call.arg = <<>>) =>
        /\ call.outcome = "returned"
        /\ call.value[1].total = 0
        /\ \A label \in Labels : call.value[1][label] = 0
        /\ IsZero(call.value[1].avg_polarity)
        /\ IsZero(call.value[1].avg_subjectivity)
        /\ \A pct \in {"positive_pct", "negative_pct", "neutral_pct"} :
               /\ pct \in DOMAIN call.value[1]
               /\ IsZero(call.value[1][pct])

\* every sentiment of the list is a dict (the empty one included)
SentimentsAreDicts(ms) ==
    \A i \in DOMAIN ms : ms[i].sentiment # Some(PyNone)

Classified(ms) == CountWhere(ms, LAMBDA m : m.sentiment # None)

\* C15: get_statistics never fails, and each percentage is the per-label
\* count over the number of mentions that have a sentiment (not over all the
\* mentions given), 0.0 when no mention has one, also when a mention's
\* sentiment is present but empty or None.
C15_OverClassified ==
    (call.op = "SentimentAnalyzer.get_statistics" /\ call.arg # <<>>) =>
        /\ call.outcome = "returned"
        /\ \A label \in Labels :
               LET pct == call.value[1][IF label = "positive" THEN "positive_pct"
                                        ELSE IF label = "negative" THEN "negative_pct"
                                        ELSE "neutral_pct"]
               IN  IF Classified(call.arg) = 0
                   THEN IsZero(pct)
                   ELSE FracEq(pct, Frac(call.value[1][label] * 100,
                                         Classified(call.arg)))

---------------------------------------------------------------------------
(* Claims about the collectors *)

\* kw occurs in text as a substring, compared case-insensitively
Occurs(kw, text) == Contains(str_lower(kw), str_lower(text))

\* C17: the keywords of a created mention are exactly the tracked keywords
\* that occur case-insensitively as substrings of the text, in the order of
\* the tracked list and without duplicates (no keyword twice, even when the
\* tracked list repeats it); the list is empty when no keyword matches.
C17_KeywordsOfMention ==
    call.op = "create_mention" =>
        LET kws == call.value.keywords
        IN  /\ {kws[i] : i \in DOMAIN kws}
                   = {call.tracked[j] : j \in {j \in DOMAIN call.tracked :
                                                   Occurs(call.tracked[j], call.text)}}
            /\ \A i, j \in DOMAIN kws : i # j => kws[i] # kws[j]
            /\ \A i, j \in DOMAIN kws :
                   i < j => \E a, b \in DOMAIN call.tracked :
                                /\ a < b
                                /\ call.tracked[a] = kws[i]
                                /\ call.tracked[b] = kws[j]

---------------------------------------------------------------------------
(* Claims about the report generator *)

\* the position of the first mention of the list with the source
FirstWith(ms, source) ==
    CHOOSE i \in DOMAIN ms :
        /\ ms[i].source = source
        /\ \A j \in 1..(i - 1) : ms[j].source # source

\* the first n characters of the text
FirstChars(text, n) == SubSeq(text, 1, IF Len(text) < n THEN Len(text) ELSE n)

\* C18: in the text report the source breakdown has one line for each source
\* of the given mentions, with its count, ordered by descending count, sources
\* of equal count in the order they were first met; the mention sample is the
\* first min(5, N) mentions in input order, each shown by the first 100
\* characters of its text, followed by the ellipsis if and only if the text
\* is longer than 100 characters.
C18_TextReport ==
    call.op = "generate_summary" =>
        LET ms      == call.arg
            sources == call.value.sources
            recent  == call.value.recent
        IN  /\ {sources[i].source : i \in DOMAIN sources}
                   = {ms[i].source : i \in DOMAIN ms}
            /\ \A i, j \in DOMAIN sources :
                   i # j => sources[i].source # sources[j].source
            /\ \A i \in DOMAIN sources :
                   sources[i].count =
                       CountWhere(ms, LAMBDA m : m.source = sources[i].source)
            /\ \A i, j \in DOMAIN sources :
                   i < j =>
                       \/ sources[i].count > sources[j].count
                       \/ /\ sources[i].count = sources[j].count
                          /\ FirstWith(ms, sources[i].source)
                                 < FirstWith(ms, sources[j].source)
            /\ Len(recent) = (IF Len(ms) < 5 THEN Len(ms) ELSE 5)
            /\ \A i \in DOMAIN recent :
                   /\ recent[i].index = i
                   /\ recent[i].source = ms[i].source
                   /\ recent[i].shown =
                          FirstChars(ms[i].text[1], 100)
                              \o (IF Len(ms[i].text[1]) > 100 THEN Ellipsis ELSE <<>>)

\* a report of six mentions: the source met second has the highest count and
\* goes first, the two other sources tie and keep the order they were met in;
\* among the five mentions shown are a text of exactly 100 characters, shown
\* whole, and one of 101, cut and marked
C18_Witness ==
    /\ call.op = "generate_summary"
    /\ Len(call.arg) = 6
    /\ Len(call.value.recent) = 5
    /\ Len(call.value.sources) = 3
    /\ call.value.sources[1].source = call.arg[2].source
    /\ call.value.sources[1].count > call.value.sources[2].count
    /\ call.value.sources[2].count = call.value.sources[3].count
    /\ call.value.sources[2].source = call.arg[1].source
    /\ \E i \in 1..5 : Len(call.arg[i].text[1]) = 100
                          /\ call.value.recent[i].shown = call.arg[i].text[1]
    /\ \E i \in 1..5 : Len(call.arg[i].text[1]) = 101
                          /\ Len(call.value.recent[i].shown) = 103

---------------------------------------------------------------------------
(* Claims about the aggregations and the renderings together *)

AggregationOps ==
    {"get_sentiment_summary", "get_platform_summary", "get_engagement_summary",
     "SentimentAnalyzer.get_statistics", "generate_summary", "generate_json"}

\* the two call records are calls of one operation on the same input
SameInput(c, d) ==
    /\ c.op = d.op
    /\ c.arg = d.arg
    /\ c.op \in {"generate_summary", "generate_json"} => c.stats = d.stats

\* the result of a call without the generation time the renderings write
WithoutTime(op, value) ==
    IF op = "generate_summary" THEN [value EXCEPT !.generated = 0]
    ELSE IF op = "generate_json" THEN [value EXCEPT !.generated_at = 0]
    ELSE value

---------------------------------------------------------------------------
(* Claims about OSINTApp and the monitors *)

\* the platform names of the model that are twitter, reddit or web when
\* compared case-insensitively
SupportedNames == {"twitter", "Twitter", "reddit", "REDDIT", "web"}

\* C20: an unknown platform is signaled, never silently ignored.  get_monitor
\* raises its unsupported-platform error for every name that is not twitter,
\* reddit or web compared case-insensitively (and returns a monitor for the
\* names that are); add_monitor called with such a name raises that error;
\* search called with a platform list that holds such a name raises that
\* error instead of returning a list of mentions.
C20_UnknownPlatformSignaled ==
    /\ call.op = "get_monitor" =>
           /\ call.platform \notin SupportedNames
                  => /\ call.outcome = "raised"
                     /\ call.error = "ValueError: Unsupported platform"
           /\ call.platform \in SupportedNames
                  => /\ call.outcome = "returned"
                     /\ call.value # None
    /\ (call.op = "add_monitor" /\ call.platform \notin SupportedNames) =>
           /\ call.outcome = "raised"
           /\ call.error = "ValueError: Unsupported platform"
    /\ ( /\ call.op = "search"
         /\ call.platforms # None
         /\ \E i \in DOMAIN call.platforms[1] :
                call.platforms[1][i] \notin SupportedNames ) =>
           /\ call.outcome = "raised"
           /\ call.error = "ValueError: Unsupported platform"
           /\ call.value = None

\* a search of a supported platform and, behind it, an unknown one: the
\* monitor of the supported platform is registered and the search is left by
\* the error
C20_Witness ==
    /\ call.op = "search"
    /\ call.platforms = Some(<<"web", "mastodon">>)
    /\ call.outcome = "raised"
    /\ HasMonitor(monitors, "web")
    /\ ~ HasMonitor(monitors, "mastodon")

---------------------------------------------------------------------------
(* Claims about the store: stamps, reads and clears *)

\* C21: after save_mention or save_mentions every stored record carries a
\* saved_at stamp, and its timestamp is still the one the caller supplied.
C21_SavedAtBesideTimestamp ==
    call.op \in {"save_mention", "save_mentions"}
        => /\ Len(mentions) = Len(inserted)
           /\ \A i \in 1..Len(mentions) :
                 /\ mentions[i].saved_at # None
                 /\ mentions[i].timestamp = inserted[i].timestamp

\* save_mentions has stored a mention observed before the time of its stamp
C21_Witness ==
    /\ call.op = "save_mentions"
    /\ Len(call.value) = 2
    /\ mentions[Len(mentions)].saved_at # None
    /\ mentions[Len(mentions)].timestamp # mentions[Len(mentions)].saved_at[1]

\* C22: without a limit, get_by_sentiment(x) returns exactly the stored
\* mentions whose sentiment label is x, in store order: a mention with
\* another label or with no sentiment is not returned, and the list is empty
\* when nothing matches.
C22_BySentiment ==
    (call.op = "get_by_sentiment" /\ call.limit = None)
        => /\ call.value =
                SelectSeq(mentions,
                    LAMBDA m : /\ m.sentiment # None
                               /\ m.sentiment[1].sentiment = call.sentiment)
           /\ \A i \in 1..Len(call.value) :
                 /\ call.value[i].sentiment # None
                 /\ call.value[i].sentiment[1].sentiment = call.sentiment

\* the neutral mentions of a store that holds a neutral mention, a mention
\* without sentiment and a mention of another label
C22_Witness ==
    /\ call.op = "get_by_sentiment"
    /\ call.limit = None
    /\ call.sentiment = "neutral"
    /\ Len(call.value) = 1
    /\ \E i \in 1..Len(mentions) : mentions[i].sentiment = None
    /\ \E i \in 1..Len(mentions) :
           mentions[i].sentiment # None /\ mentions[i].sentiment[1].sentiment = "positive"

\* C23: clear_mentions empties the stored mentions and leaves the query log
\* as it was; the query log grows by one record with each save_query, is
\* emptied by clear_all and by nothing else, and get_statistics reports its
\* length as total_queries: the number of save_query calls since the last
\* clear_all, whatever insertions and clear_mentions calls came in between.
C23_ClearMentionsKeepsQueries ==
    [][/\ call'.op = "clear_mentions" => (mentions' = <<>> /\ queries' = queries)
       /\ call'.op = "save_query" => Len(queries') = Len(queries) + 1
       /\ call'.op = "clear_all" => queries' = <<>>
       /\ call'.op \notin {"save_query", "clear_all"} => queries' = queries
       /\ call'.op = "get_statistics" => call'.value.total_queries = Len(queries')
      ]_vars

\* clear_mentions has emptied a store that held mentions and a logged query,
\* and the query is still logged
C23_Witness ==
    /\ call.op = "clear_mentions"
    /\ call.mentions_before > 0
    /\ call.queries_before = 1
    /\ Len(queries) = 1

\* the list s begins with the list t
StartsWith(s, t) == Len(t) <= Len(s) /\ SubSeq(s, 1, Len(t)) = t

\* C27: get_mentions, get_by_sentiment and get_statistics leave the stored
\* mentions and the query log as they were; the stored mentions change only
\* by an insertion (save_mention, save_mentions), which adds records after
\* the ones stored and leaves those as they were, or by a clear
\* (clear_mentions, clear_all), which removes them all.
C27_ReadsLeaveStore ==
    [][/\ call'.op \in {"get_mentions", "get_by_sentiment", "get_statistics"}
             => (mentions' = mentions /\ queries' = queries)
       /\ mentions' # mentions
             => \/ /\ call'.op \in {"save_mention", "save_mentions"}
                   /\ StartsWith(mentions', mentions)
                \/ /\ call'.op \in {"clear_mentions", "clear_all"}
                   /\ mentions' = <<>>
      ]_vars

\* a read has returned two of the three mentions of a store with a logged
\* query
C27_Witness ==
    /\ call.op = "get_mentions"
    /\ Len(mentions) = 3
    /\ Len(queries) = 1
    /\ Len(call.value) = 2

---------------------------------------------------------------------------
(* Claims about the filters of OSINTApp *)

\* the spellings of one platform identifier in lower and upper case
CaseClasses ==
    { {"twitter", "Twitter"}, {"reddit", "Reddit", "REDDIT"},
      {"web", "Web"}, {"mastodon", "Mastodon"} }

EqualIgnoringCase(a, b) ==
    a = b \/ \E class \in CaseClasses : a \in class /\ b \in class

\* C24: filter_by_platform(p) returns exactly the given mentions whose
\* platform equals p ignoring case, in the order given and as they are, the
\* platform in the case it was stored in; filter_by_sentiment(s) returns
\* exactly the given mentions whose sentiment equals s, in the order given.
\* The list given is the one in batch, which a filter call leaves alone.
C24_Filters ==
    [][batch' = batch =>
          /\ call'.op = "filter_by_platform"
                => call'.value =
                       SelectSeq(batch,
                           LAMBDA m : EqualIgnoringCase(m.platform, call'.platform))
          /\ call'.op = "filter_by_sentiment"
                => call'.value =
                       SelectSeq(batch,
                           LAMBDA m : m.sentiment = Some(call'.sentiment))
      ]_vars

\* of three mentions, the two of one platform stored in two cases have been
\* returned, each in its case, for an argument in the case of one of them
C24_Witness ==
    /\ call.op = "filter_by_platform"
    /\ call.platform = "Twitter"
    /\ Len(batch) = 3
    /\ Len(call.value) = 2
    /\ call.value[1].platform = "twitter"
    /\ call.value[2].platform = "Twitter"

---------------------------------------------------------------------------
(* Claims about OSINTApp.search *)

\* the platform identifiers the three monitors write into their mentions
MonitorPlatforms == {"Twitter", "Reddit", "Web"}

\* C25: for every integer max_results, a search that returns holds, for each
\* of the three monitors, at most max_results mentions of its platform, and
\* at most max(0, max_results): none when max_results is zero or negative.
\* No platform list of the model names a platform twice.
C25_MaxResultsPerPlatform ==
    (call.op = "search" /\ call.outcome = "returned" /\ Len(call.max_results) = 1)
        => \A platform \in MonitorPlatforms :
               CountWhere(call.value[1], LAMBDA m : m.platform = platform)
                   <= (IF call.max_results[1] > 0 THEN call.max_results[1] ELSE 0)

\* C26: every Mention that search returns, and so every Mention it leaves in
\* self.results, has a sentiment that is one of positive, negative and
\* neutral, and an engagement whose total is likes + shares + comments.
C26_RecordInvariants ==
    LET Sound(m) ==
            /\ m.sentiment \in {Some(label) : label \in Labels}
            /\ DOMAIN m.engagement = {"likes", "shares", "comments", "total"}
            /\ m.engagement.total
                   = m.engagement.likes + m.engagement.shares + m.engagement.comments
    IN  /\ (call.op = "search" /\ call.outcome = "returned")
               => \A i \in DOMAIN call.value[1] : Sound(call.value[1][i])
        /\ \A i \in DOMAIN app_results : Sound(app_results[i])

\* a search has returned mentions of two monitors that carry the three labels
\* between them, one of them with comments counted
C26_Witness ==
    /\ call.op = "search"
    /\ call.outcome = "returned"
    /\ \A label \in Labels :
           \E i \in DOMAIN call.value[1] : call.value[1][i].sentiment = Some(label)
    /\ \E i, j \in DOMAIN call.value[1] :
           call.value[1][i].platform # call.value[1][j].platform
    /\ \E i \in DOMAIN call.value[1] : call.value[1][i].engagement.comments > 0

\* what the monitor of the platform returns for the query, nothing when it
\* raises
Found(platform, query_keywords, max_results, now) ==
    LET found == monitor_search(get_monitor(platform).value[1],
                                query_keywords, max_results, now)
    IN  IF found.outcome = "raised" THEN <<>> ELSE found.value

\* the lists Found of platforms[1..i], one after the other
RECURSIVE FoundUpTo(_, _, _, _, _)
FoundUpTo(platforms, i, query_keywords, max_results, now) ==
    IF i = 0
    THEN <<>>
    ELSE FoundUpTo(platforms, i - 1, query_keywords, max_results, now)
             \o Found(platforms[i], query_keywords, max_results, now)

\* the platforms a search call goes through: the list given, or the keys of
\* self.monitors
Searched ==
    IF call.platforms = None THEN MonitorKeys(monitors) ELSE call.platforms[1]

\* the monitor of the platform raises on the query of the search call
MonitorRaises(platform) ==
    monitor_search(get_monitor(platform).value[1],
                   call.keywords, call.max_results, clock).outcome = "raised"

\* C28: a search over supported platforms returns also when a monitor raises:
\* it returns the mentions that the monitors of the platforms returned, one
\* list after the other in the order of the platform list, a monitor that
\* raised contributing nothing; and self.results is then the list returned,
\* whatever an earlier search had left there.
C28_MonitorErrorAbsorbed ==
    ( /\ call.op = "search"
      /\ \A i \in DOMAIN Searched : Searched[i] \in SupportedNames )
        => /\ call.outcome = "returned"
           /\ call.value = Some(FoundUpTo(Searched, Len(Searched), call.keywords,
                                          call.max_results, clock))
           /\ app_results = call.value[1]

\* a search of three registered platforms where the monitor of the second
\* raised and the two others returned mentions
C28_Witness ==
    /\ call.op = "search"
    /\ call.outcome = "returned"
    /\ Len(Searched) = 3
    /\ MonitorRaises(Searched[2])
    /\ ~ MonitorRaises(Searched[1])
    /\ ~ MonitorRaises(Searched[3])
    /\ call.value[1] # <<>>
    /\ call.value[1][1].platform # call.value[1][Len(call.value[1])].platform
    /\ app_results = call.value[1]

\* C29: a search that is left by the error of an unsupported platform leaves
\* the application as it was before the call: self.results holds what it
\* held and self.monitors holds the monitors it held, wherever the
\* unsupported platform stands in the list.
C29_FailedSearchChangesNothing ==
    [][(call'.op = "search" /\ call'.outcome = "raised")
           => (app_results' = app_results /\ monitors' = monitors)]_vars

---------------------------------------------------------------------------
(* Claims about the collect command *)

\* the sum of the results_count of the query records qs[1..i]
RECURSIVE SumCounts(_, _)
SumCounts(qs, i) ==
    IF i = 0 THEN 0 ELSE SumCounts(qs, i - 1) + qs[i].results_count

\* the last n mentions of the store
LastStored(n) == SubSeq(mentions, Len(mentions) - n + 1, Len(mentions))

\* C30: the steps of a collect run are ordered.  Every mention is classified
\* before it is inserted: all the mentions of the run carry a sentiment when
\* the first of them is stored, and so does every stored mention.  All the
\* mentions are inserted before the query is logged: the run's mentions are
\* the last ones of the store when its query record is written.  One query
\* record is logged per run, with the number of mentions the run inserted as
\* results_count.  So on a store that was empty before the first run, after
\* k runs that went through their inserting and logging get_statistics
\* reports total_queries = k and total_mentions = the sum of the k
\* results_count.
C30_StepsOrdered ==
    LET st == get_statistics(mentions, queries)
    IN  /\ \A i \in DOMAIN mentions : mentions[i].sentiment # None
        /\ (call.op = "collect" /\ call.step = "saved")
               => /\ \A i \in DOMAIN batch : batch[i].sentiment # None
                  /\ Len(batch) <= Len(mentions)
                  /\ LastStored(Len(batch)) = batch
                  /\ Len(queries) = call.run - 1
                  /\ Len(mentions) = SumCounts(queries, Len(queries)) + Len(batch)
        /\ (call.op = "collect" /\ call.step \in {"collected", "analyzed"})
               => /\ Len(queries) = call.run - 1
                  /\ Len(mentions) = SumCounts(queries, Len(queries))
        /\ (call.op = "collect" /\ call.step = "logged")
               => /\ Len(batch) <= Len(mentions)
                  /\ LastStored(Len(batch)) = batch
                  /\ queries[Len(queries)].results_count = Len(batch)
        /\ (call.op = "collect" /\ call.step \in {"logged", "done", "raised"})
               => /\ st.total_queries = call.run
                  /\ st.total_mentions = SumCounts(queries, Len(queries))

\* two runs are through: the first collected from one source, the second
\* from all of them, and the two results_count add up to the mentions stored
C30_Witness ==
    /\ call.op = "collect"
    /\ call.step = "done"
    /\ call.run = 2
    /\ Len(queries) = 2
    /\ queries[1].results_count = 1
    /\ queries[2].results_count = 8
    /\ Len(mentions) = 9

=============================================================================
